---------------------------- MODULE Spec2Model ----------------------------
(***************************************************************************)
(* A model of slate-md-serializer: the Markdown escaper (src/utils.js) and *)
(* the tree-to-Markdown renderer, in its two revisions (src/renderer.js    *)
(* and part_001).                                                          *)
(*                                                                         *)
(* Strings are sequences of one-character strings.  Inside the escaper and *)
(* the renderer a character is a record [c |-> the character, k |-> the    *)
(* key of the text node it comes from, o |-> its index in that node's      *)
(* text]; a character the program puts in (a backslash, a delimiter, a     *)
(* line break) has k = 0 and o = 0.  The program reads only the field c,   *)
(* so k and o are ghosts that let a property speak of "the backslash       *)
(* inserted before this occurrence" or "the delimiters around this leaf".  *)
(***************************************************************************)
EXTENDS Integers, Sequences, FiniteSets, TLC

VARIABLES
  pc,        \* where the run stands
  text,      \* the string given: a text to escape, or Markdown to parse
  result,    \* what escapeMarkdownChars returned
  document,  \* the document given to, or parsed for, serialize
  rendered,  \* what serialize returned
  reparsed,  \* the document parsed from rendered
  options,   \* the options the serializer was constructed with: its rules
  tableHeader, \* the module variable tableHeader of renderer.js
  tableHeader001, \* the module variable tableHeader of part_001
  firstRow   \* the module variable firstRow of part_001

vars == <<pc, text, result, document, rendered, reparsed, options,
          tableHeader, tableHeader001, firstRow>>

(***************************************************************************)
(* Bounds of the model.                                                    *)
(***************************************************************************)
\* The number of tokens (characters or link/image constructs) of an input text.
MaxTokens == 3

\* The number of sibling text leaves of a paragraph.
MaxLeaves == 3

\* The number of lines of a code block, or of code-marked leaves of a paragraph.
MaxCodeLines == 2

\* The length of the text of a leaf in a code context.
MaxCodeText == 3

\* The length of a Markdown input of the round trip.
MaxMarkdown == 4

(***************************************************************************)
(* Characters and character classes of the JavaScript regular expressions. *)
(***************************************************************************)
\* The backtick character, which a TLA+ string cannot hold.
Backtick == "BACKTICK"

\* The single characters input texts are made of.
Alphabet ==
  {"\\", "a", ".", "#", " ", "\n", ">", "-", "+", "!",
   "[", "]", "(", ")", Backtick, "*", "{", "}", "_"}

\* \s : white space
IsSpace(c) == c \in {" ", "\n"}

\* \w : [A-Za-z0-9_]
IsWord(c) == c \in {"a", "_"}

\* .  : any character but a line terminator
IsDot(c) == c # "\n"

\* [`*{}\[\]_] : the class of the catch-all rule
IsCatchAll(c) == c \in {Backtick, "*", "{", "}", "[", "]", "_"}

Max(S) == CHOOSE x \in S : \A y \in S : y <= x

\* The text of the text node with the given key: each character with its
\* origin.
TagLeaf(s, key) == [i \in 1..Len(s) |-> [c |-> s[i], k |-> key, o |-> i]]

\* A text given to the escaper on its own.
Tag(s) == TagLeaf(s, 1)

\* A string literal of the program.
Lit(s) == [i \in 1..Len(s) |-> [c |-> s[i], k |-> 0, o |-> 0]]

\* The plain string of a tagged text.
Chars(t) == [i \in 1..Len(t) |-> t[i].c]

\* A backslash put in by a replacement string ("\\$1", "$1\\.", ...).
Inserted == [c |-> "\\", k |-> 0, o |-> 0]

\* t with a backslash inserted in front of every index in P.
InsertBefore(t, P) ==
  LET F[i \in 0..Len(t)] ==
        IF i = 0 THEN <<>>
        ELSE F[i-1] \o (IF i \in P THEN <<Inserted, t[i]>> ELSE <<t[i]>>)
  IN F[Len(t)]

\* The number of leading white space characters of t: what ^(\s*) consumes.
LeadingSpace(t) ==
  LET F[i \in 0..Len(t)] ==
        IF i = Len(t) THEN i
        ELSE IF IsSpace(t[i+1].c) THEN F[i+1] ELSE i
  IN F[0]

\* The number of word characters of t from index k+1 on: what \w+ consumes.
WordRun(t, k) ==
  LET F[i \in k..Len(t)] ==
        IF i = Len(t) THEN i - k
        ELSE IF IsWord(t[i+1].c) THEN F[i+1] ELSE i - k
  IN F[k]

(***************************************************************************)
(* escapeMarkdownChars, one definition per replace() call.                 *)
(***************************************************************************)
\* result.replace(/([\\])/gi, "\\$1")
replaceBackslash(t) ==
  InsertBefore(t, {i \in 1..Len(t) : t[i].c = "\\"})

\* result.replace(/^(\s*\w+)\./gi, "$1\\.")
replacePeriod(t) ==
  LET k == LeadingSpace(t)
      w == WordRun(t, k)
      p == k + w + 1
  IN IF w >= 1 /\ p <= Len(t) /\ t[p].c = "."
     THEN InsertBefore(t, {p}) ELSE t

\* A faulty variant: every "#" is escaped, hashtags too.
replaceHash_Every(t) ==
  InsertBefore(t, {i \in 1..Len(t) : t[i].c = "#"})

\* result.replace(/(#\s)/gi, "\\$1")
replaceHash(t) ==
  InsertBefore(t, {i \in 1..Len(t) :
                     t[i].c = "#" /\ i < Len(t) /\ IsSpace(t[i+1].c)})

\* result.replace(/^(\s*)X/gi, "$1\\X") for one character X
replaceLeading(t, x) ==
  LET p == LeadingSpace(t) + 1
  IN IF p <= Len(t) /\ t[p].c = x THEN InsertBefore(t, {p}) ELSE t

\* result.replace(/^(\s*)>/gi, "$1\\>")
replaceBlockquote(t) == replaceLeading(t, ">")

\* result.replace(/^(\s*)-/gi, "$1\\-")
replaceHyphen(t) == replaceLeading(t, "-")

\* result.replace(/^(\s*)\+/gi, "$1\\+")
replacePlus(t) == replaceLeading(t, "+")

\* The indexes j of a "](" that \[(.*)\]\((.*)\) can use when its "[" is at
\* index b: .* stays on one line, and a ")" must follow on that line.
LinkMiddles(t, b) ==
  {j \in (b+1)..(Len(t)-2) :
     /\ t[j].c = "]" /\ t[j+1].c = "("
     /\ \A x \in (b+1)..(j-1) : IsDot(t[x].c)
     /\ \E k \in (j+2)..Len(t) :
          t[k].c = ")" /\ \A x \in (j+2)..(k-1) : IsDot(t[x].c)}

\* The indexes k of a ")" that can end the match whose "](" is at j.
LinkEnds(t, j) ==
  {k \in (j+2)..Len(t) :
     t[k].c = ")" /\ \A x \in (j+2)..(k-1) : IsDot(t[x].c)}

\* The match of \[(.*)\]\((.*)\) with its "[" at index b: both .* are
\* greedy, so the last usable "](" and then the last usable ")".
LinkMatchAt(t, b) ==
  IF b <= Len(t) /\ t[b].c = "[" /\ LinkMiddles(t, b) # {}
  THEN LET j == Max(LinkMiddles(t, b))
       IN {[b |-> b, j |-> j, k |-> Max(LinkEnds(t, j))]}
  ELSE {}

\* The matches of the global expression \[(.*)\]\((.*)\), scanning from p:
\* the leftmost match, then on from its end.
RECURSIVE LinkMatches(_, _)
LinkMatches(t, p) ==
  IF p > Len(t) THEN {}
  ELSE IF LinkMatchAt(t, p) # {}
       THEN LET m == CHOOSE m \in LinkMatchAt(t, p) : TRUE
            IN {m} \cup LinkMatches(t, m.k + 1)
       ELSE LinkMatches(t, p + 1)

\* The match of !\[(.*)\]\((.*)\) with its "!" at index b.
ImageMatchAt(t, b) ==
  IF b <= Len(t) /\ t[b].c = "!" THEN LinkMatchAt(t, b + 1) ELSE {}

RECURSIVE ImageMatches(_, _)
ImageMatches(t, p) ==
  IF p > Len(t) THEN {}
  ELSE IF ImageMatchAt(t, p) # {}
       THEN LET m == CHOOSE m \in ImageMatchAt(t, p) : TRUE
            IN {p} \cup ImageMatches(t, m.k + 1)
       ELSE ImageMatches(t, p + 1)

\* result.replace(/!\[(.*)\]\((.*)\)/gi, "\\![$1]($2)")
replaceImage(t) == InsertBefore(t, ImageMatches(t, 1))

\* result.replace(/\[(.*)\]\((.*)\)/gi, "[$1]\\($2\\)")
replaceLink(t) ==
  LET ms == LinkMatches(t, 1)
  IN InsertBefore(t, {m.j + 1 : m \in ms} \cup {m.k : m \in ms})

\* A faulty variant: the expression without its g flag, which replaces the
\* first occurrence only.
replaceCatchAll_FirstOnly(t) ==
  LET P == {i \in 1..Len(t) : IsCatchAll(t[i].c)}
  IN InsertBefore(t, {i \in P : \A j \in P : i <= j})

\* result.replace(/([`*{}\[\]_])/gi, "\\$1")
replaceCatchAll(t) ==
  InsertBefore(t, {i \in 1..Len(t) : IsCatchAll(t[i].c)})

\* A faulty variant: the backslashes are replaced last, so the backslashes
\* the other rules inserted are escaped again.
escapeTagged_BackslashLast(t) ==
  replaceBackslash(replaceCatchAll(replaceLink(replaceImage(replacePlus(
    replaceHyphen(replaceBlockquote(replaceHash(replacePeriod(t)))))))))

\* escapeMarkdownChars on a tagged text: the nine replacements in order.
escapeTagged(t) ==
  replaceCatchAll(replaceLink(replaceImage(replacePlus(replaceHyphen(
    replaceBlockquote(replaceHash(replacePeriod(replaceBackslash(t)))))))))

\* escapeMarkdownChars(text)
escapeMarkdownChars(s) == Chars(escapeTagged(Tag(s)))

(***************************************************************************)
(* Strings of the renderer.                                                *)
(***************************************************************************)
\* The element of a set of one element.  A value that is read more than
\* once is bound as v in {e(v) : v \in {d}}, so that d is computed once.
The(S) == CHOOSE r \in S : TRUE

\* JavaScript's undefined where a string is expected.
Undefined == <<[c |-> "undefined", k |-> 0, o |-> 0]>>

\* if (ret): neither undefined nor the empty string.
Truthy(v) == v # Undefined /\ v # <<>>

\* The strings of a sequence, joined.
RECURSIVE Join(_)
Join(strs) ==
  IF strs = <<>> THEN <<>> ELSE Head(strs) \o Join(Tail(strs))

\* Array.join(sep) and List.join(sep); an undefined element counts as "".
RECURSIVE JoinWith(_, _)
JoinWith(strs, sep) ==
  IF strs = <<>> THEN <<>>
  ELSE LET h == IF Head(strs) = Undefined THEN <<>> ELSE Head(strs)
       IN IF Len(strs) = 1 THEN h ELSE h \o sep \o JoinWith(Tail(strs), sep)

\* The number of trailing white space characters of t.
TrailingSpace(t) ==
  LET F[i \in 0..Len(t)] ==
        IF i = Len(t) THEN i
        ELSE IF IsSpace(t[Len(t) - i].c) THEN F[i+1] ELSE i
  IN F[0]

\* String.trim()
Trim(t) ==
  IF LeadingSpace(t) = Len(t) THEN <<>>
  ELSE SubSeq(t, LeadingSpace(t) + 1, Len(t) - TrailingSpace(t))

\* The indexes of the backticks of the matches of the global expression
\* /```/g, scanning from p: the leftmost match, then on from its end.
RECURSIVE FenceMatches(_, _)
FenceMatches(t, p) ==
  IF p + 2 > Len(t) THEN {}
  ELSE IF t[p].c = Backtick /\ t[p+1].c = Backtick /\ t[p+2].c = Backtick
       THEN {p, p + 1, p + 2} \cup FenceMatches(t, p + 3)
       ELSE FenceMatches(t, p + 1)

\* A faulty variant: every backtick is escaped, not only a run of three.
replaceFence_EveryBacktick(t) ==
  InsertBefore(t, {i \in 1..Len(t) : t[i].c = Backtick})

\* children.replace(/```/g, '\\`\\`\\`')
replaceFence(t) == InsertBefore(t, FenceMatches(t, 1))

\* children.split('\n').map(text => `> ${text}`).join('\n')
quoteLines(t) ==
  LET F[i \in 0..Len(t)] ==
        IF i = 0 THEN Lit(<<">", " ">>)
        ELSE F[i-1] \o <<t[i]>> \o
             (IF t[i].c = "\n" THEN Lit(<<">", " ">>) ELSE <<>>)
  IN F[Len(t)]

\* ' '.repeat(n)
Spaces(n) == Lit([i \in 1..n |-> " "])

\* (n).toString() for a number below 100.
toString(n) ==
  LET digit(d) == <<"0", "1", "2", "3", "4", "5", "6", "7", "8", "9">>[d + 1]
  IN IF n < 10 THEN <<digit(n)>> ELSE <<digit(n \div 10), digit(n % 10)>>

\* children.replace(/\n+$/, '\n'): the line breaks that end the string
\* become one.
replaceTrailingNewlines(t) ==
  LET n == Max({m \in 0..Len(t) :
                  \A i \in (Len(t) - m + 1)..Len(t) : t[i].c = "\n"})
  IN IF n = 0 THEN t ELSE SubSeq(t, 1, Len(t) - n) \o Lit(<<"\n">>)

\* children.replace(/^(.+)/gm, `${pad}$1`): pad before every line that is
\* not empty.
RECURSIVE prefixLines(_, _, _)
prefixLines(t, pad, i) ==
  IF i > Len(t) THEN <<>>
  ELSE (IF (i = 1 \/ t[i - 1].c = "\n") /\ t[i].c # "\n" THEN pad ELSE <<>>)
         \o <<t[i]>> \o prefixLines(t, pad, i + 1)

\* string.replace(/^\s+/, by): the white space the string starts with.
replaceLeadingSpace(t, by) ==
  IF LeadingSpace(t) = 0 THEN t
  ELSE by \o SubSeq(t, LeadingSpace(t) + 1, Len(t))

\* string.replace(/^ /, '-')
replaceFirstSpace(t) ==
  IF t # <<>> /\ t[1].c = " " THEN Lit(<<"-">>) \o Tail(t) ELSE t

(***************************************************************************)
(* The document tree: Slate's nodes.  A node is a record with the fields   *)
(* object, type, key, text, marks (a text node's mark types, in the order  *)
(* the node holds them), nodes and data.                                   *)
(***************************************************************************)
NoData == [language |-> <<>>, align |-> "", checked |-> FALSE, href |-> <<>>]

\* undefined where a node is expected (nodes.get of an index out of range).
NoNode ==
  [object |-> "undefined", type |-> "", key |-> 0, text |-> <<>>,
   marks |-> <<>>, nodes |-> <<>>, data |-> NoData]

TextNode(key, str, marks) ==
  [object |-> "text", type |-> "", key |-> key, text |-> str,
   marks |-> marks, nodes |-> <<>>, data |-> NoData]

Block(type, nodes) ==
  [object |-> "block", type |-> type, key |-> 0, text |-> <<>>,
   marks |-> <<>>, nodes |-> nodes, data |-> NoData]

Inline(type, nodes) ==
  [object |-> "inline", type |-> type, key |-> 0, text |-> <<>>,
   marks |-> <<>>, nodes |-> nodes, data |-> NoData]

Document(nodes) ==
  [object |-> "document", type |-> "", key |-> 0, text |-> <<>>,
   marks |-> <<>>, nodes |-> nodes, data |-> NoData]

\* A block with a key and data of its own.
BlockWith(type, key, nodes, data) ==
  [object |-> "block", type |-> type, key |-> key, text |-> <<>>,
   marks |-> <<>>, nodes |-> nodes, data |-> data]

\* A link with its href.
Link(href, nodes) ==
  [object |-> "inline", type |-> "link", key |-> 0, text |-> <<>>,
   marks |-> <<>>, nodes |-> nodes, data |-> [NoData EXCEPT !.href = href]]

\* new String({text}) and a Mark, as the rules see them.
StringObject == [object |-> "string", type |-> "", data |-> NoData]
MarkObject(type) == [object |-> "mark", type |-> type, data |-> NoData]

\* The mark types of a node, as the hash prevNodeMarks / nextNodeMarks.
MarkTypesOf(node) ==
  IF node.object = "text"
  THEN {node.marks[i] : i \in 1..Len(node.marks)} ELSE {}

(***************************************************************************)
(* RULES of src/renderer.js, each a serialize function that returns its    *)
(* string or undefined.  The image rule is not modelled: no document of    *)
(* this model holds an image.                                              *)
(***************************************************************************)
\* RULES[0]: a string serializes to its text.
ruleString(obj, children) ==
  IF obj.object = "string" THEN children ELSE Undefined

HeadingPrefix(type) ==
  CASE type = "heading1" -> <<"#", " ">>
    [] type = "heading2" -> <<"#", "#", " ">>
    [] type = "heading3" -> <<"#", "#", "#", " ">>
    [] type = "heading4" -> <<"#", "#", "#", "#", " ">>
    [] type = "heading5" -> <<"#", "#", "#", "#", "#", " ">>
    [] type = "heading6" -> <<"#", "#", "#", "#", "#", "#", " ">>

Fence == <<Backtick, Backtick, Backtick>>

\* What a header cell adds to tableHeader.
AlignMarker(align) ==
  CASE align = "left" -> <<"|", ":", "-", "-", "-", " ">>
    [] align = "center" -> <<"|", ":", "-", "-", "-", ":">>
    [] align = "right" -> <<"|", " ", "-", "-", "-", ":">>
    [] OTHER -> <<"|", " ", "-", "-", "-", " ">>

\* parent.nodes.indexOf(obj): the place (from 0) of the first node of the
\* list that equals obj, or -1.
IndexOf(nodes, obj) ==
  IF \E i \in 1..Len(nodes) : nodes[i] = obj
  THEN (CHOOSE i \in 1..Len(nodes) :
          nodes[i] = obj /\ \A j \in 1..(i - 1) : nodes[j] # obj) - 1
  ELSE -1

\* case 'list-item' of RULES[1].
ruleListItem(obj, children, parent) ==
  IF parent.type = "ordered-list"
  THEN LET index == toString(IndexOf(parent.nodes, obj) + 1)
           pad == Spaces(Len(index) + 2)
       IN replaceLeadingSpace(prefixLines(children, pad, 1),
                              Lit(index \o <<".", " ">>))
  ELSE replaceFirstSpace(prefixLines(children, Spaces(2), 1))

\* RULES[1]: the blocks.  parent is document.getParent(obj.key); tableHeader
\* is the module variable as the call finds it.
ruleBlock(obj, children, parent, header) ==
  IF obj.object # "block" THEN Undefined
  ELSE CASE obj.type = "table" -> Trim(children) \o Lit(<<"\n">>)
         [] obj.type = "table-head" ->
              Lit(<<"|", " ">>) \o children \o Lit(<<" ">>)
         [] obj.type = "table-row" ->
              children \o Lit(<<"|", "\n">>)
                \o (IF header # <<>> THEN header \o Lit(<<"|", "\n">>)
                    ELSE <<>>)
         [] obj.type = "table-cell" ->
              Lit(<<"|", " ">>) \o children \o Lit(<<" ">>)
         [] obj.type = "paragraph" -> children \o Lit(<<"\n">>)
         [] obj.type = "code" ->
              Lit(Fence) \o Lit(obj.data.language) \o Lit(<<"\n">>)
                \o replaceFence(children) \o Lit(<<"\n">> \o Fence \o <<"\n">>)
         [] obj.type = "code-line" -> replaceFence(children) \o Lit(<<"\n">>)
         [] obj.type = "block-quote" -> quoteLines(children) \o Lit(<<"\n">>)
         [] obj.type \in {"todo-list", "bulleted-list", "ordered-list"} ->
              replaceTrailingNewlines(children)
         [] obj.type = "list-item" -> ruleListItem(obj, children, parent)
         [] obj.type \in {"heading1", "heading2", "heading3",
                          "heading4", "heading5", "heading6"} ->
              Lit(HeadingPrefix(obj.type)) \o children \o Lit(<<"\n">>)
         [] obj.type = "horizontal-rule" -> Lit(<<"-", "-", "-", "\n">>)
         [] OTHER -> Undefined

\* The module variable tableHeader as a call of RULES[1] leaves it.
tableHeaderAfter(obj, header) ==
  IF obj.object # "block" THEN header
  ELSE CASE obj.type = "table" -> <<>>
         [] obj.type = "table-head" -> header \o Lit(AlignMarker(obj.data.align))
         [] obj.type = "table-row" -> <<>>
         [] OTHER -> header

\* RULES[2]: a hashtag serializes to its children.
ruleHashtag(obj, children) ==
  IF obj.type = "hashtag" THEN children ELSE Undefined

\* encode of ./urls, for an href of word characters: the href itself.
encode(href) == href

\* RULES[3]: a link.
ruleLink(obj, children) ==
  IF obj.type = "link"
  THEN LET href == encode(obj.data.href)
           label == IF Trim(children) # <<>> THEN Trim(children) ELSE Lit(href)
       IN Lit(<<"[">>) \o label \o Lit(<<"]", "(">>) \o Lit(href)
            \o Lit(<<")">>)
  ELSE Undefined

\* The delimiter of a mark type.
Delimiter(type) ==
  CASE type = "bold" -> <<"*", "*">>
    [] type = "italic" -> <<"_">>
    [] type = "code" -> <<Backtick>>
    [] type = "inserted" -> <<"+", "+">>
    [] type = "deleted" -> <<"~", "~">>
    [] type = "underlined" -> <<"_", "_">>

\* RULES[4]: the marks.  Only bold and italic read open and close.
ruleMark(obj, children, open, close) ==
  IF obj.object # "mark" THEN Undefined
  ELSE IF ~Truthy(children) THEN Undefined
  ELSE CASE obj.type \in {"bold", "italic"} ->
              (IF open THEN Lit(Delimiter(obj.type)) ELSE <<>>)
                \o children
                \o (IF close THEN Lit(Delimiter(obj.type)) ELSE <<>>)
         [] obj.type \in {"code", "inserted", "deleted", "underlined"} ->
              Lit(Delimiter(obj.type)) \o children \o Lit(Delimiter(obj.type))
         [] OTHER -> Undefined

\* for (const rule of this.rules) { ret = rule.serialize(...); if (ret) return ret }
FirstTruthy(rets) ==
  The({IF \E i \in 1..Len(r) : Truthy(r[i])
       THEN r[CHOOSE i \in 1..Len(r) :
                Truthy(r[i]) /\ \A j \in 1..(i-1) : ~Truthy(r[j])]
       ELSE Undefined : r \in {rets}})

\* A rule of options.rules: for the objects it is written for it returns
\* its string, for every other object undefined.
customRule(rule, obj) ==
  IF obj.object = rule.object /\ obj.type = rule.type
  THEN rule.ret ELSE Undefined

\* What the rules of options.rules return for one object, in their order.
customRules(obj) == [i \in 1..Len(options) |-> customRule(options[i], obj)]

\* applyRules when the list is [...RULES, ...(options.rules || [])].
applyRules_BuiltInsFirst(obj, children, open, close, parent, header) ==
  FirstTruthy(<<ruleString(obj, children),
                ruleBlock(obj, children, parent, header),
                ruleHashtag(obj, children),
                ruleLink(obj, children),
                ruleMark(obj, children, open, close)>>
                \o customRules(obj))

\* What the rules of this.rules return for one object, in the order of the
\* list: [...(options.rules || []), ...RULES].
applyRules(obj, children, open, close, parent, header) ==
  FirstTruthy(customRules(obj)
                \o <<ruleString(obj, children),
                     ruleBlock(obj, children, parent, header),
                     ruleHashtag(obj, children),
                     ruleLink(obj, children),
                     ruleMark(obj, children, open, close)>>)

\* tableHeader after the rules were tried for one object: RULES[1] is called
\* unless a rule before it returned a truthy value.
headerAfterRules(obj, children, header) ==
  IF Truthy(FirstTruthy(customRules(obj) \o <<ruleString(obj, children)>>))
  THEN header ELSE tableHeaderAfter(obj, header)

(***************************************************************************)
(* class Markdown                                                          *)
(***************************************************************************)
\* serializeString(string)
serializeString(str) ==
  applyRules(StringObject, str, FALSE, FALSE, NoNode, <<>>)

\* marks.sort(...): the marks the previous node has go last; the sort is
\* stable.
sortMarks(marks, prevNodeMarks) ==
  SelectSeq(marks, LAMBDA m : m \notin prevNodeMarks)
    \o SelectSeq(marks, LAMBDA m : m \in prevNodeMarks)

\* marks.reduce(...) from the i-th mark on.  openMarks is the set of the
\* mark types whose entry in the openMarks object is true.
RECURSIVE reduceMarks(_, _, _, _, _)
reduceMarks(marks, i, children, openMarks, nextNodeMarks) ==
  IF i > Len(marks) THEN [out |-> children, open |-> openMarks]
  ELSE LET type == marks[i]
           close == type \notin nextNodeMarks
           open == type \notin openMarks
           opened == IF type \in nextNodeMarks
                     THEN openMarks \cup {type} ELSE openMarks \ {type}
       IN The({reduceMarks(marks, i + 1, ret, opened, nextNodeMarks) :
                 ret \in {applyRules(MarkObject(type), children, open, close,
                                     NoNode, <<>>)}})

\* serializeLeaves(leaves, escape, openMarks, prevNode, nextNode): the
\* string (or undefined) and openMarks as the call leaves it.
serializeLeaves(leaves, escape, openMarks, prevNode, nextNode) ==
  LET tagged == TagLeaf(leaves.text, leaves.key)
      leavesText == IF escape THEN escapeTagged(tagged) ELSE tagged
      str == serializeString(leavesText)
      prevNodeMarks == MarkTypesOf(prevNode)
      nextNodeMarks == MarkTypesOf(nextNode)
      marks == IF prevNodeMarks # {}
               THEN sortMarks(leaves.marks, prevNodeMarks) ELSE leaves.marks
  IN reduceMarks(marks, 1, str, openMarks, nextNodeMarks)

\* node.nodes.get(index - 1) for the child at (1-based) place i: an
\* Immutable List counts a negative index back from its end.
PrevSibling(nodes, i) == IF i = 1 THEN nodes[Len(nodes)] ELSE nodes[i - 1]

\* node.nodes.get(index + 1)
NextSibling(nodes, i) == IF i = Len(nodes) THEN NoNode ELSE nodes[i + 1]

\* const isMultilineListItem = ...
isMultilineListItem(node) ==
  /\ node.type = "list-item"
  /\ \/ Len(node.nodes) # 2
     \/ node.nodes[1].type # "paragraph"
     \/ node.nodes[Len(node.nodes)].type
          \notin {"ordered-list", "bulleted-list", "todo-list"}

\* serializeNode(node, document, openMarks, prevNode, nextNode): the string
\* (or undefined), and openMarks and tableHeader as the call leaves them.
\* inCode says that an ancestor of the node has type code
\* (document.getClosest), parent is document.getParent(node.key), header is
\* tableHeader as the call finds it.
RECURSIVE serializeNode(_, _, _, _, _, _, _)
RECURSIVE serializeChildren(_, _, _, _, _)
serializeNode(node, inCode, openMarks, prevNode, nextNode, parent, header) ==
  IF node.object = "text"
  THEN LET inCodeMark == "code" \in MarkTypesOf(node)
       IN The({[out |-> r.out, open |-> r.open, header |-> header] :
                 r \in {serializeLeaves(node, ~inCode /\ ~inCodeMark,
                                        openMarks, prevNode, nextNode)}})
  ELSE LET sep == IF node.type = "block-quote" \/ isMultilineListItem(node)
                  THEN Lit(<<"\n">>) ELSE <<>>
       IN The({The({[out |-> applyRules(node, children, FALSE, FALSE, parent,
                                        kids.header),
                     open |-> kids.open,
                     header |-> headerAfterRules(node, children, kids.header)] :
                      children \in {JoinWith(kids.outs, sep)}}) :
                 kids \in {serializeChildren(node,
                                             inCode \/ node.type = "code",
                                             openMarks, header, 1)}})

\* node.nodes.map(...) from the i-th child on: the children's strings
\* (serialized || ''), and openMarks and tableHeader, which the calls share.
serializeChildren(node, inCode, openMarks, header, i) ==
  IF i > Len(node.nodes)
  THEN [outs |-> <<>>, open |-> openMarks, header |-> header]
  ELSE The({The({[outs |-> <<IF Truthy(r.out) THEN r.out ELSE <<>> >>
                             \o rest.outs,
                  open |-> rest.open, header |-> rest.header] :
                   rest \in {serializeChildren(node, inCode, r.open, r.header,
                                               i + 1)}}) :
              r \in {serializeNode(node.nodes[i], inCode, openMarks,
                                   PrevSibling(node.nodes, i),
                                   NextSibling(node.nodes, i), node, header)}})

\* document.nodes.map(node => this.serializeNode(node, document)) from the
\* i-th node on: every top-level node with an openMarks object of its own.
RECURSIVE serializeElements(_, _, _)
serializeElements(state, header, i) ==
  IF i > Len(state.nodes) THEN [outs |-> <<>>, header |-> header]
  ELSE The({The({[outs |-> <<r.out>> \o rest.outs, header |-> rest.header] :
                   rest \in {serializeElements(state, r.header, i + 1)}}) :
              r \in {serializeNode(state.nodes[i], FALSE, {}, NoNode, NoNode,
                                   state, header)}})

\* serialize(state) when tableHeader holds header: the string returned and
\* tableHeader after the call.
serializeWith(state, header) ==
  The({[out |-> Trim(JoinWith(r.outs, Lit(<<"\n">>))), header |-> r.header] :
         r \in {serializeElements(state, header, 1)}})

\* serialize(state) of a freshly loaded module.
serialize(state) == serializeWith(state, <<>>).out

(***************************************************************************)
(* The renderer of src/unnamed/part_001: the same class with the module    *)
(* variables tableHeader and firstRow, without openMarks.  serialize is    *)
(* called without options, so version is 1; previousBlock and              *)
(* currentBlock, which only version 2 reads, are left out.  A text node    *)
(* has one leaf.  st is the record of tableHeader and firstRow.            *)
(***************************************************************************)
\* children.replace(/\n+$/gm, ""): of the line breaks in a row before
\* another line one is kept, those that end the string go.
RECURSIVE removeLineEnds(_, _)
removeLineEnds(t, i) ==
  IF i > Len(t) THEN <<>>
  ELSE IF t[i].c = "\n" /\ (i = Len(t) \/ t[i + 1].c = "\n")
       THEN removeLineEnds(t, i + 1)
  ELSE <<t[i]>> \o removeLineEnds(t, i + 1)

\* string.replace(/^/gm, "   "): three spaces at the start of every line.
RECURSIVE indentLines(_, _)
indentLines(t, i) ==
  IF i > Len(t) + 1 THEN <<>>
  ELSE (IF i = 1 \/ t[i - 1].c = "\n" THEN Spaces(3) ELSE <<>>)
         \o (IF i <= Len(t) THEN <<t[i]>> ELSE <<>>)
         \o indentLines(t, i + 1)

\* case "list-item" of RULES[1] of part_001.
ruleListItem001(obj, children, parent) ==
  CASE parent.type = "ordered-list" ->
         Lit(<<"1", ".", " ">>) \o children \o Lit(<<"\n">>)
    [] parent.type = "todo-list" ->
         Lit(IF obj.data.checked THEN <<"[", "x", "]">> ELSE <<"[", " ", "]">>)
           \o Lit(<<" ">>) \o children \o Lit(<<"\n">>)
    [] OTHER -> Lit(<<"*", " ">>) \o children \o Lit(<<"\n">>)

\* ruleBlock001 when a root list, too, gets the nested-list treatment.
ruleBlock001_EveryListNested(obj, children, parent, st) ==
  IF obj.object # "block" THEN Undefined
  ELSE CASE obj.type = "table" -> Trim(children)
         [] obj.type = "table-cell" ->
              Lit(<<"|", " ">>) \o children \o Lit(<<" ">>)
         [] obj.type = "table-row" ->
              children \o Lit(<<"|", "\n">>)
                \o (IF st.firstRow THEN st.tableHeader \o Lit(<<"|", "\n">>)
                    ELSE <<>>)
         [] obj.type = "paragraph" -> children
         [] obj.type = "code" ->
              Lit(Fence) \o Lit(obj.data.language) \o Lit(<<"\n">>)
                \o children \o Lit(<<"\n">> \o Fence)
         [] obj.type = "code-line" -> children \o Lit(<<"\n">>)
         [] obj.type = "block-quote" -> quoteLines(children)
         [] obj.type \in {"todo-list", "bulleted-list", "ordered-list"} ->
              Lit(<<"\n">>) \o indentLines(removeLineEnds(children, 1), 1)
         [] obj.type = "list-item" -> ruleListItem001(obj, children, parent)
         [] obj.type = "heading1" ->
              Lit(HeadingPrefix(obj.type)) \o children \o Lit(<<"\n">>)
         [] obj.type \in {"heading2", "heading3", "heading4", "heading5",
                          "heading6"} ->
              Lit(<<"\n">> \o HeadingPrefix(obj.type)) \o children
                \o Lit(<<"\n">>)
         [] obj.type = "horizontal-rule" -> Lit(<<"-", "-", "-">>)
         [] OTHER -> Undefined

\* RULES[1] of part_001: the blocks.
ruleBlock001(obj, children, parent, st) ==
  IF obj.object # "block" THEN Undefined
  ELSE CASE obj.type = "table" -> Trim(children)
         [] obj.type = "table-cell" ->
              Lit(<<"|", " ">>) \o children \o Lit(<<" ">>)
         [] obj.type = "table-row" ->
              children \o Lit(<<"|", "\n">>)
                \o (IF st.firstRow THEN st.tableHeader \o Lit(<<"|", "\n">>)
                    ELSE <<>>)
         [] obj.type = "paragraph" -> children
         [] obj.type = "code" ->
              Lit(Fence) \o Lit(obj.data.language) \o Lit(<<"\n">>)
                \o children \o Lit(<<"\n">> \o Fence)
         [] obj.type = "code-line" -> children \o Lit(<<"\n">>)
         [] obj.type = "block-quote" -> quoteLines(children)
         [] obj.type \in {"todo-list", "bulleted-list", "ordered-list"} ->
              IF parent.object = "document" THEN children
              ELSE Lit(<<"\n">>) \o indentLines(removeLineEnds(children, 1), 1)
         [] obj.type = "list-item" -> ruleListItem001(obj, children, parent)
         [] obj.type = "heading1" ->
              Lit(HeadingPrefix(obj.type)) \o children \o Lit(<<"\n">>)
         [] obj.type \in {"heading2", "heading3", "heading4", "heading5",
                          "heading6"} ->
              Lit(<<"\n">> \o HeadingPrefix(obj.type)) \o children
                \o Lit(<<"\n">>)
         [] obj.type = "horizontal-rule" -> Lit(<<"-", "-", "-">>)
         [] OTHER -> Undefined

\* stateAfter001 when case "table" leaves tableHeader and firstRow alone.
stateAfter001_NoReset(obj, st) ==
  IF obj.object # "block" THEN st
  ELSE CASE obj.type = "table-cell" ->
              [st EXCEPT !.tableHeader = @ \o Lit(AlignMarker(obj.data.align))]
         [] obj.type = "table-row" ->
              IF st.firstRow THEN [tableHeader |-> <<>>, firstRow |-> FALSE]
              ELSE st
         [] OTHER -> st

\* tableHeader and firstRow as a call of RULES[1] of part_001 leaves them.
stateAfter001(obj, st) ==
  IF obj.object # "block" THEN st
  ELSE CASE obj.type = "table" -> [tableHeader |-> <<>>, firstRow |-> TRUE]
         [] obj.type = "table-cell" ->
              [st EXCEPT !.tableHeader = @ \o Lit(AlignMarker(obj.data.align))]
         [] obj.type = "table-row" ->
              IF st.firstRow THEN [tableHeader |-> <<>>, firstRow |-> FALSE]
              ELSE st
         [] OTHER -> st

\* RULES[3] of part_001: a link; without href, its text.
ruleLink001(obj, children) ==
  IF obj.type = "link"
  THEN LET href == encode(obj.data.href)
           label == IF Trim(children) # <<>> THEN Trim(children) ELSE Lit(href)
       IN IF href # <<>>
          THEN Lit(<<"[">>) \o label \o Lit(<<"]", "(">>) \o Lit(href)
                 \o Lit(<<")">>)
          ELSE label
  ELSE Undefined

\* RULES[4] of part_001: the marks, each with both its delimiters.
ruleMark001(obj, children) ==
  IF obj.object # "mark" THEN Undefined
  ELSE IF ~Truthy(children) THEN Undefined
  ELSE IF obj.type \in {"bold", "italic", "code", "inserted", "deleted",
                        "underlined"}
       THEN Lit(Delimiter(obj.type)) \o children \o Lit(Delimiter(obj.type))
       ELSE Undefined

\* What the rules of this.rules of part_001 return for one object.
applyRules001(obj, children, parent, st) ==
  FirstTruthy(customRules(obj)
                \o <<ruleString(obj, children),
                     ruleBlock001(obj, children, parent, st),
                     ruleHashtag(obj, children),
                     ruleLink001(obj, children),
                     ruleMark001(obj, children)>>)

\* The module variables after the rules were tried for one object.
stateAfterRules001(obj, children, st) ==
  IF Truthy(FirstTruthy(customRules(obj) \o <<ruleString(obj, children)>>))
  THEN st ELSE stateAfter001(obj, st)

\* leaves.marks.reduce(...) of part_001 from the i-th mark on.
RECURSIVE reduceMarks001(_, _, _)
reduceMarks001(marks, i, children) ==
  IF i > Len(marks) THEN children
  ELSE The({reduceMarks001(marks, i + 1, ret) :
              ret \in {applyRules001(MarkObject(marks[i]), children, NoNode,
                                     [tableHeader |-> <<>>,
                                      firstRow |-> TRUE])}})

\* serializeLeaves(leaves, escape) of part_001.
serializeLeaves001(leaves, escape) ==
  LET tagged == TagLeaf(leaves.text, leaves.key)
      leavesText == IF escape THEN escapeTagged(tagged) ELSE tagged
      str == applyRules001(StringObject, leavesText, NoNode,
                           [tableHeader |-> <<>>, firstRow |-> TRUE])
  IN reduceMarks001(leaves.marks, 1, str)

\* serializeNode(node, document) of part_001: the string (or undefined) and
\* the module variables as the call leaves them.
RECURSIVE serializeNode001(_, _, _, _)
RECURSIVE serializeChildren001(_, _, _, _)
serializeNode001(node, inCode, parent, st) ==
  IF node.object = "text"
  THEN LET inCodeMark == "code" \in MarkTypesOf(node)
       IN The({[out |-> IF leaf = Undefined THEN <<>> ELSE leaf, st |-> st] :
                 leaf \in {serializeLeaves001(node, ~inCode /\ ~inCodeMark)}})
  ELSE LET sep == IF node.type = "block-quote" THEN Lit(<<"\n">>) ELSE <<>>
       IN The({The({[out |-> applyRules001(node, children, parent, kids.st),
                     st |-> stateAfterRules001(node, children, kids.st)] :
                      children \in {JoinWith(kids.outs, sep)}}) :
                 kids \in {serializeChildren001(node,
                                                inCode \/ node.type = "code",
                                                st, 1)}})

\* node.nodes.map(...) of part_001 from the i-th child on.
serializeChildren001(node, inCode, st, i) ==
  IF i > Len(node.nodes) THEN [outs |-> <<>>, st |-> st]
  ELSE The({The({[outs |-> <<IF Truthy(r.out) THEN r.out ELSE <<>> >>
                             \o rest.outs,
                  st |-> rest.st] :
                   rest \in {serializeChildren001(node, inCode, r.st, i + 1)}}) :
              r \in {serializeNode001(node.nodes[i], inCode, node, st)}})

\* document.nodes.map(...) of part_001 from the i-th node on.
RECURSIVE serializeElements001(_, _, _)
serializeElements001(state, st, i) ==
  IF i > Len(state.nodes) THEN [outs |-> <<>>, st |-> st]
  ELSE The({The({[outs |-> <<r.out>> \o rest.outs, st |-> rest.st] :
                   rest \in {serializeElements001(state, r.st, i + 1)}}) :
              r \in {serializeNode001(state.nodes[i], FALSE, state, st)}})

\* serializeWith001 when the elements are joined without a line break.
serializeWith001_JoinedWithoutBreaks(state, st) ==
  The({[out |-> replaceLeadingSpace(JoinWith(r.outs, <<>>), <<>>),
        st |-> r.st] :
         r \in {serializeElements001(state, st, 1)}})

\* serialize(state) of part_001 when the module variables hold st: the
\* string returned, its leading white space removed, and the variables after.
serializeWith001(state, st) ==
  The({[out |-> replaceLeadingSpace(JoinWith(r.outs, Lit(<<"\n">>)), <<>>),
        st |-> r.st] :
         r \in {serializeElements001(state, st, 1)}})

\* serialize(state) of part_001 of a freshly loaded module.
serialize001(state) ==
  serializeWith001(state, [tableHeader |-> <<>>, firstRow |-> TRUE]).out

(***************************************************************************)
(* The parser (./parser, not part of the sources at hand), after section   *)
(* 4 of the specification, for one line of Markdown made of word           *)
(* characters, "#" and backslashes: no block marker can start such a line, *)
(* so a line that is not empty is one paragraph.                           *)
(***************************************************************************)
\* The characters a backslash makes literal: those the escaper escapes.
IsMeta(c) ==
  c \in {"\\", ".", "#", ">", "-", "+", "!", "(", ")",
         Backtick, "*", "{", "}", "[", "]", "_"}

\* The text node of the literal characters read so far, if any.
FlushText(cur, key) ==
  IF cur = <<>> THEN <<>> ELSE <<TextNode(key, cur, <<>>)>>

\* The number of characters a hashtag takes after the "#" at index i: up to
\* the next white space or "-", or the end of the span.
RECURSIVE TagRun(_, _)
TagRun(s, i) ==
  IF i < Len(s) /\ ~IsSpace(s[i + 1]) /\ s[i + 1] # "-"
  THEN 1 + TagRun(s, i + 1) ELSE 0

\* The inline parser from index i on; cur holds the literal characters read
\* since the last node, key is the key of the next text node.  An escaped
\* metacharacter is read literally and its backslash dropped; a "#" right
\* before a word character starts a hashtag.
RECURSIVE parseInline(_, _, _, _)
parseInline(s, i, cur, key) ==
  IF i > Len(s) THEN FlushText(cur, key)
  ELSE IF s[i] = "\\" /\ i < Len(s) /\ IsMeta(s[i + 1])
       THEN parseInline(s, i + 2, cur \o <<s[i + 1]>>, key)
  ELSE IF s[i] = "#" /\ i < Len(s) /\ IsWord(s[i + 1])
       THEN LET w == TagRun(s, i)
                before == FlushText(cur, key)
                tagKey == key + Len(before)
            IN before
                 \o <<Inline("hashtag",
                             <<TextNode(tagKey, SubSeq(s, i, i + w), <<>>)>>)>>
                 \o parseInline(s, i + w + 1, <<>>, tagKey + 1)
  ELSE parseInline(s, i + 1, cur \o <<s[i]>>, key)

\* parser.parse(markdown): no block for the empty input.
parse(s) ==
  IF s = <<>> THEN Document(<<>>)
  ELSE Document(<<Block("paragraph", parseInline(s, 1, <<>>, 1))>>)

\* deserialize(markdown)
deserialize(s) == parse(s)

(***************************************************************************)
(* Input texts: up to MaxTokens tokens, each a character of the alphabet   *)
(* or a whole link or image construct.                                     *)
(***************************************************************************)
Tokens ==
  {<<c>> : c \in Alphabet}
    \cup {<<"[", "a", "]", "(", "a", ")">>,
          <<"!", "[", "a", "]", "(", "a", ")">>}

(***************************************************************************)
(* The escaper as a state machine: a text is given, then escaped.          *)
(***************************************************************************)
InitEscape ==
  /\ pc = "text"
  /\ \E n \in 0..MaxTokens : \E toks \in [1..n -> Tokens] : text = Join(toks)
  /\ result = <<>>
  /\ document = Document(<<>>)
  /\ rendered = <<>>
  /\ reparsed = Document(<<>>)
  /\ options = <<>>
  /\ tableHeader = <<>>
  /\ tableHeader001 = <<>>
  /\ firstRow = TRUE

\* One call of escapeMarkdownChars(text).
Escape ==
  /\ pc = "text"
  /\ result' = escapeTagged(Tag(text))
  /\ pc' = "escaped"
  /\ UNCHANGED <<text, document, rendered, reparsed, options, tableHeader,
                 tableHeader001, firstRow>>

NextEscape == Escape

SpecEscape == InitEscape /\ [][NextEscape]_vars

(***************************************************************************)
(* The renderer as a state machine: a document is given, then serialized.  *)
(***************************************************************************)
\* One call of Markdown.serialize on the document.
Serialize ==
  /\ pc = "parsed"
  /\ \E r \in {serializeWith(document, tableHeader)} :
       /\ rendered' = r.out
       /\ tableHeader' = r.header
  /\ pc' = "rendered"
  /\ UNCHANGED <<text, result, document, reparsed, options, tableHeader001,
                 firstRow>>

\* One call of Markdown.serialize of part_001 on the document.
Serialize001 ==
  /\ pc = "parsed"
  /\ \E r \in {serializeWith001(document, [tableHeader |-> tableHeader001,
                                            firstRow |-> firstRow])} :
       /\ rendered' = r.out
       /\ tableHeader001' = r.st.tableHeader
       /\ firstRow' = r.st.firstRow
  /\ pc' = "rendered001"
  /\ UNCHANGED <<text, result, document, reparsed, options, tableHeader>>

\* The caller holds the string returned and has another document, one of
\* docs, to serialize; the modules stay loaded.
Give(docs) ==
  /\ pc \in {"rendered", "rendered001"}
  /\ document' \in docs
  /\ pc' = "parsed"
  /\ UNCHANGED <<text, result, rendered, reparsed, options, tableHeader,
                 tableHeader001, firstRow>>

\* The mark types the leaves of a given document carry.
LeafMarkTypes == {"bold", "italic", "code", "deleted"}

\* The marks of a leaf: up to two of them, in either order.
MarkSeqs ==
  {<<>>} \cup {<<m>> : m \in LeafMarkTypes}
    \cup {p \in LeafMarkTypes \X LeafMarkTypes : p[1] # p[2]}

\* A paragraph of up to MaxLeaves sibling text leaves with the text "a".
InitLeaves ==
  /\ pc = "parsed"
  /\ text = <<>>
  /\ result = <<>>
  /\ \E n \in 1..MaxLeaves : \E marks \in [1..n -> MarkSeqs] :
       document =
         Document(<<Block("paragraph",
                          [i \in 1..n |-> TextNode(i, <<"a">>, marks[i])])>>)
  /\ rendered = <<>>
  /\ reparsed = Document(<<>>)
  /\ options = <<>>
  /\ tableHeader = <<>>
  /\ tableHeader001 = <<>>
  /\ firstRow = TRUE

NextLeaves == Serialize

SpecLeaves == InitLeaves /\ [][NextLeaves]_vars

\* The texts of the leaves in a code context.
CodeTexts ==
  UNION {[1..n -> {Backtick, "*"}] : n \in 0..MaxCodeText}

\* A code block of up to MaxCodeLines lines, each one unmarked leaf.
CodeBlockOf(texts) ==
  Block("code",
        [i \in 1..Len(texts) |->
           Block("code-line", <<TextNode(i, texts[i], <<>>)>>)])

\* A paragraph of up to MaxCodeLines leaves that carry a code mark.
CodeMarksOf(texts) ==
  Block("paragraph",
        [i \in 1..Len(texts) |-> TextNode(i, texts[i], <<"code">>)])

InitCode ==
  /\ pc = "parsed"
  /\ text = <<>>
  /\ result = <<>>
  /\ \E n \in 1..MaxCodeLines : \E texts \in [1..n -> CodeTexts] :
       \/ document = Document(<<CodeBlockOf(texts)>>)
       \/ document = Document(<<CodeMarksOf(texts)>>)
  /\ rendered = <<>>
  /\ reparsed = Document(<<>>)
  /\ options = <<>>
  /\ tableHeader = <<>>
  /\ tableHeader001 = <<>>
  /\ firstRow = TRUE

NextCode == Serialize

SpecCode == InitCode /\ [][NextCode]_vars

(***************************************************************************)
(* The round trip of the tests (assertSymmetry): parse, render, parse.     *)
(***************************************************************************)
\* The pieces of a line of Markdown that is literal text: a word character,
\* an escaped "#", an escaped backslash.
MarkdownTokens == {<<"a">>, <<"\\", "#">>, <<"\\", "\\">>}

\* One line of Markdown of up to MaxMarkdown such pieces.
InitRoundTrip ==
  /\ pc = "markdown"
  /\ \E n \in 0..MaxMarkdown : \E toks \in [1..n -> MarkdownTokens] :
       text = Join(toks)
  /\ result = <<>>
  /\ document = Document(<<>>)
  /\ rendered = <<>>
  /\ reparsed = Document(<<>>)
  /\ options = <<>>
  /\ tableHeader = <<>>
  /\ tableHeader001 = <<>>
  /\ firstRow = TRUE

\* const parsed = Markdown.deserialize(text)
Deserialize ==
  /\ pc = "markdown"
  /\ document' = deserialize(text)
  /\ pc' = "parsed"
  /\ UNCHANGED <<text, result, rendered, reparsed, options, tableHeader,
                 tableHeader001, firstRow>>

\* const reparsed = Markdown.deserialize(rendered)
DeserializeRendered ==
  /\ pc = "rendered"
  /\ reparsed' = deserialize(Chars(rendered))
  /\ pc' = "reparsed"
  /\ UNCHANGED <<text, result, document, rendered, options, tableHeader,
                 tableHeader001, firstRow>>

NextRoundTrip == Deserialize \/ Serialize \/ DeserializeRendered

SpecRoundTrip == InitRoundTrip /\ [][NextRoundTrip]_vars

(***************************************************************************)
(* Reading the escaper's result.                                           *)
(***************************************************************************)
\* The escaped string.
Escaped == Chars(result)

\* Where the i-th character of the text stands in the result.
PosOf(i) == CHOOSE p \in 1..Len(result) : result[p].o = i

\* The number of backslashes the escaper put directly in front of the i-th
\* character of the text.
InsertedBeforeChar(i) ==
  PosOf(i) - (IF i = 1 THEN 0 ELSE PosOf(i - 1)) - 1

\* The characters of the text are all in the result, in order, and every
\* other character of the result is an inserted backslash.
OnlyInsertions == SelectSeq(result, LAMBDA e : e.o # 0) = Tag(text)

\* The unescape step of the inline parser, as the claim words it: read left
\* to right, a backslash and the character after it give that character.
RECURSIVE Unescape(_)
Unescape(s) ==
  IF s = <<>> THEN <<>>
  ELSE IF s[1] = "\\" /\ Len(s) >= 2
       THEN <<s[2]>> \o Unescape(SubSeq(s, 3, Len(s)))
       ELSE <<s[1]>> \o Unescape(Tail(s))

\* The occurrences of [text](url) in s: "[" at b, "](" at j, ")" at k, no
\* bracket inside the text, no parenthesis inside the url, all on one line.
LinkOccurrences(s) ==
  {o \in [b : 1..Len(s), j : 1..Len(s), k : 1..Len(s)] :
     /\ o.b < o.j /\ o.j + 1 < o.k
     /\ s[o.b] = "[" /\ s[o.j] = "]" /\ s[o.j + 1] = "(" /\ s[o.k] = ")"
     /\ \A x \in (o.b + 1)..(o.j - 1) : s[x] \notin {"[", "]", "\n"}
     /\ \A x \in (o.j + 2)..(o.k - 1) : s[x] \notin {"(", ")", "\n"}}

\* The "!" at index i starts an image construct ![alt](url).
StartsImage(s, i) ==
  s[i] = "!" /\ \E o \in LinkOccurrences(s) : o.b = i + 1

\* The "!" at index i is followed by "[", then "](" and ")" later on the line:
\* the widest reading of "starts an image construct".
StartsImageLoosely(s, i) ==
  /\ s[i] = "!" /\ i < Len(s) /\ s[i + 1] = "["
  /\ \E j \in (i + 2)..Len(s), k \in (i + 2)..Len(s) :
       /\ j + 1 < k /\ s[j] = "]" /\ s[j + 1] = "(" /\ s[k] = ")"
       /\ \A x \in (i + 2)..(k - 1) : s[x] # "\n"

\* The character at index i is the first non-white-space character of its line.
FirstOfLine(s, i) ==
  /\ ~IsSpace(s[i])
  /\ \E b \in 0..(i - 1) :
       /\ b = 0 \/ s[b] = "\n"
       /\ \A x \in (b + 1)..(i - 1) : IsSpace(s[x])

(***************************************************************************)
(* Reading the renderer's result.                                          *)
(***************************************************************************)
\* The text leaves of the one block of the document, in order: the leaves of
\* a paragraph, or the leaf of each line of a code block.
DocLeaves ==
  LET b == document.nodes[1]
  IN IF b.type = "code"
     THEN [i \in 1..Len(b.nodes) |-> b.nodes[i].nodes[1]]
     ELSE b.nodes

\* Where the i-th character of the leaf with key k stands in the rendering.
RPos(k, i) ==
  CHOOSE p \in 1..Len(rendered) : rendered[p].k = k /\ rendered[p].o = i

\* The number of inserted backslashes right before position p.
BackslashesBefore(p) ==
  Max({n \in 0..(p - 1) : \A q \in (p - n)..(p - 1) : rendered[q] = Inserted})

\* What the renderer put between the text of leaf k and that of leaf k + 1.
Between(k) ==
  Chars(SubSeq(rendered, RPos(k, Len(DocLeaves[k].text)) + 1,
               RPos(k + 1, 1) - 1))

\* The string s holds the string d.
Contains(s, d) ==
  \E i \in 1..(Len(s) - Len(d) + 1) : SubSeq(s, i, i + Len(d) - 1) = d

\* The text of every leaf is in the rendering, every character of it and in
\* order.
TextKept ==
  \A k \in 1..Len(DocLeaves) :
    SelectSeq(rendered, LAMBDA e : e.k = k) = TagLeaf(DocLeaves[k].text, k)

\* Between two characters of a leaf's text stand inserted backslashes only.
TextTogether ==
  \A k \in 1..Len(DocLeaves) : \A i \in 2..Len(DocLeaves[k].text) :
    RPos(k, i) = RPos(k, i - 1) + 1 + BackslashesBefore(RPos(k, i))

\* The backtick at index i of t is one of a run of three that /```/g
\* matches: the matches take a run of backticks three at a time from its left.
InFence(t, i) ==
  /\ t[i] = Backtick
  /\ LET first == CHOOSE b \in 1..i :
                    /\ \A x \in b..i : t[x] = Backtick
                    /\ b = 1 \/ t[b - 1] # Backtick
         last == CHOOSE e \in i..Len(t) :
                   /\ \A x \in i..e : t[x] = Backtick
                   /\ e = Len(t) \/ t[e + 1] # Backtick
     IN i - first < 3 * ((last - first + 1) \div 3)

\* The intervals of sibling leaves that carry mark m, each as wide as can be.
Spans(m) ==
  LET has(i) == i \in 1..Len(DocLeaves) /\ m \in MarkTypesOf(DocLeaves[i])
  IN {r \in (1..Len(DocLeaves)) \X (1..Len(DocLeaves)) :
        /\ r[1] <= r[2]
        /\ \A i \in r[1]..r[2] : has(i)
        /\ ~has(r[1] - 1) /\ ~has(r[2] + 1)}

\* The leaves carry bold and italic only, and of a bold span and an italic
\* span that meet, one contains the other.
ProperlyNested ==
  /\ \A k \in 1..Len(DocLeaves) :
       MarkTypesOf(DocLeaves[k]) \subseteq {"bold", "italic"}
  /\ \A b \in Spans("bold"), i \in Spans("italic") :
       \/ b[2] < i[1] \/ i[2] < b[1]
       \/ (b[1] <= i[1] /\ i[2] <= b[2])
       \/ (i[1] <= b[1] /\ b[2] <= i[2])

\* The delimiters of t from position p on are well bracketed, given the
\* stack of the delimiters open so far: a delimiter closes the innermost open
\* one of its kind or opens a new one, and none is left open at the end.
RECURSIVE WellBracketed(_, _, _)
WellBracketed(t, p, stack) ==
  IF p > Len(t) THEN stack = <<>>
  ELSE IF t[p].k # 0 \/ t[p].c \notin {"*", "_"}
       THEN WellBracketed(t, p + 1, stack)
  ELSE LET d == t[p].c
           next == IF d = "*" THEN p + 2 ELSE p + 1
       IN IF stack # <<>> /\ stack[Len(stack)] = d
          THEN WellBracketed(t, next, SubSeq(stack, 1, Len(stack) - 1))
          ELSE /\ \A x \in 1..Len(stack) : stack[x] # d
               /\ WellBracketed(t, next, stack \o <<d>>)

(***************************************************************************)
(* The claims about the renderer.                                          *)
(***************************************************************************)
\* C1: parsing, rendering and parsing again is stable: the document parsed
\* from the rendering of a parsed input equals the document parsed from the
\* input.
C1_RoundTripStable ==
  pc = "reparsed" => reparsed = document

\* C2: between the texts of two adjacent sibling leaves that carry the same
\* mark no delimiter of that mark is emitted, for every mark type; and a run
\* of leaves that all carry one and the same mark is rendered as the texts
\* inside exactly one pair of delimiters.
C2_OneDelimiterPairPerRun ==
  pc = "rendered" /\ document.nodes[1].type = "paragraph" =>
    /\ \A k \in 1..(Len(DocLeaves) - 1) :
         \A m \in MarkTypesOf(DocLeaves[k]) \cap MarkTypesOf(DocLeaves[k + 1]) :
           ~Contains(Between(k), Delimiter(m))
    /\ \A m \in LeafMarkTypes :
         (\A k \in 1..Len(DocLeaves) : DocLeaves[k].marks = <<m>>) =>
           Chars(rendered) =
             Delimiter(m)
               \o Join([k \in 1..Len(DocLeaves) |-> DocLeaves[k].text])
               \o Delimiter(m)

\* C3: when the bold and italic spans of sibling leaves with non-empty text
\* are properly nested, the "**" and "_" delimiters of the rendering are
\* well bracketed, whatever the order of the marks on each leaf.
C3_NestedMarksWellBracketed ==
  pc = "rendered" /\ document.nodes[1].type = "paragraph" /\ ProperlyNested =>
    WellBracketed(rendered, 1, <<>>)

C5_EscapeUnescapeInverse ==
  pc = "escaped" =>
    /\ Unescape(Escaped) = text
    /\ OnlyInsertions
    /\ result = <<>> \/ result[Len(result)].o # 0
    /\ \A i \in 1..Len(text) :
         /\ InsertedBeforeChar(i) <= 1
         /\ text[i] = "\\" => InsertedBeforeChar(i) = 1

\* C5 witness: a text with a backslash and a character a later rule escapes
\* has been escaped.
C5_Witness ==
  /\ pc = "escaped"
  /\ \E i, j \in 1..Len(text) :
       /\ text[i] = "\\" /\ text[j] = "*" /\ j = i + 1
       /\ InsertedBeforeChar(j) = 1

\* C6: every occurrence of [text](url) in the input, also when there are
\* several, has a backslash before its "[", "]", "(" and ")".
C6_EveryLinkEscaped ==
  pc = "escaped" =>
    \A o \in LinkOccurrences(text) :
      \A i \in {o.b, o.j, o.j + 1, o.k} : InsertedBeforeChar(i) >= 1

\* C7: a "!" gets a backslash exactly when it starts an image construct
\* ![alt](url): every "!" that starts one is escaped (also with several
\* images in the text), and no other "!" is.
C7_BangEscapedIffImage ==
  pc = "escaped" =>
    \A i \in 1..Len(text) :
      text[i] = "!" =>
        /\ StartsImage(text, i) => InsertedBeforeChar(i) >= 1
        /\ InsertedBeforeChar(i) >= 1 => StartsImageLoosely(text, i)

\* C8: a "#" gets a backslash (exactly one) if and only if the character
\* right after it is white space; a "#" before any other character, or at
\* the end of the text, gets none.
C8_HashEscapedIffSpaceFollows ==
  pc = "escaped" =>
    \A i \in 1..Len(text) :
      text[i] = "#" =>
        InsertedBeforeChar(i) =
          (IF i < Len(text) /\ IsSpace(text[i + 1]) THEN 1 ELSE 0)

\* C8 witness: a text with an escaped "#" and an unescaped "#" has been escaped.
C8_Witness ==
  /\ pc = "escaped"
  /\ \E i, j \in 1..Len(text) :
       /\ text[i] = "#" /\ InsertedBeforeChar(i) = 1
       /\ text[j] = "#" /\ InsertedBeforeChar(j) = 0

\* C9: every backtick, "*", "{", "}", "[", "]" and "_" of the input, at any
\* position, has exactly one inserted backslash in front of it in the output.
C9_CatchAllEscapedOnce ==
  pc = "escaped" =>
    \A i \in 1..Len(text) :
      IsCatchAll(text[i]) => InsertedBeforeChar(i) = 1

\* C9 witness: a text holding a link construct and a further catch-all
\* character not at its start has been escaped.
C9_Witness ==
  /\ pc = "escaped"
  /\ LinkOccurrences(text) # {}
  /\ Len(text) >= 2 /\ text[Len(text)] = "_"
  /\ InsertedBeforeChar(Len(text)) = 1

\* C10: a ">", "-" or "+" gets a backslash exactly when it is the first
\* non-white-space character of its line, on the first line and on every
\* later line; the white space before it is kept.
C10_LineStartMarkersEscaped ==
  pc = "escaped" =>
    /\ OnlyInsertions
    /\ \A i \in 1..Len(text) :
         text[i] \in {">", "-", "+"} =>
           (InsertedBeforeChar(i) >= 1 <=> FirstOfLine(text, i))

(***************************************************************************)
(* Tables: documents of well-formed tables, serialized call after call.    *)
(* The header cells of a table are table-head blocks for renderer.js and   *)
(* table-cell blocks for part_001; the data cells are table-cell blocks.   *)
(***************************************************************************)
\* The number of columns of a table.
MaxCols == 2

\* The number of data rows of a table.
MaxDataRows == 1

\* The values of a cell's data.align; "" stands for none.
Aligns == {"left", "center", "right", ""}

\* The block types of a header cell.
HeadTypes == {"table-head", "table-cell"}

TableCell(type, col, align) ==
  BlockWith(type, col, <<TextNode(col, <<"a">>, <<>>)>>,
            [NoData EXCEPT !.align = align])

TableRow(type, aligns) ==
  Block("table-row",
        [c \in 1..Len(aligns) |-> TableCell(type, c, aligns[c])])

\* A table of a header row of cells of type head and rows data rows; the
\* cells of a column share the column's align.
Table(head, aligns, rows) ==
  Block("table",
        <<TableRow(head, aligns)>>
          \o [r \in 1..rows |-> TableRow("table-cell", aligns)])

Tables(head) ==
  {Table(head, aligns, rows) :
     aligns \in UNION {[1..n -> Aligns] : n \in 1..MaxCols},
     rows \in 0..MaxDataRows}

\* The tables of one header cell.
SmallTables(head) == {Table(head, <<al>>, 0) : al \in Aligns}

\* Documents of one table, or of a table and a small table after it.
TableDocs ==
  UNION {{Document(<<t>>) : t \in Tables(head)}
           \cup {Document(<<t, u>>) :
                   t \in Tables(head), u \in SmallTables(head)} :
         head \in HeadTypes}

\* The documents of one small table.
SmallTableDocs ==
  UNION {{Document(<<u>>) : u \in SmallTables(head)} : head \in HeadTypes}

InitTables ==
  /\ pc = "parsed"
  /\ text = <<>>
  /\ result = <<>>
  /\ document \in TableDocs
  /\ rendered = <<>>
  /\ reparsed = Document(<<>>)
  /\ options = <<>>
  /\ tableHeader = <<>>
  /\ tableHeader001 = <<>>
  /\ firstRow = TRUE

NextTables == Serialize \/ Serialize001 \/ Give(SmallTableDocs)

SpecTables == InitTables /\ [][NextTables]_vars

(***************************************************************************)
(* Reading rendered tables.                                                *)
(***************************************************************************)
\* s.split("\n"): the lines of a string.
RECURSIVE SplitLines(_)
SplitLines(s) ==
  IF \E i \in 1..Len(s) : s[i] = "\n"
  THEN LET i == CHOOSE i \in 1..Len(s) :
                  s[i] = "\n" /\ \A j \in 1..(i - 1) : s[j] # "\n"
       IN <<SubSeq(s, 1, i - 1)>> \o SplitLines(SubSeq(s, i + 1, Len(s)))
  ELSE <<s>>

\* The lines of a string that are not empty.
NonEmptyLines(s) == SelectSeq(SplitLines(s), LAMBDA l : l # <<>>)

\* The places of the pipes of a line, in order.
RECURSIVE PipesFrom(_, _)
PipesFrom(l, i) ==
  IF i > Len(l) THEN <<>>
  ELSE (IF l[i] = "|" THEN <<i>> ELSE <<>>) \o PipesFrom(l, i + 1)

\* The cells of a row line: what stands between two successive pipes.
LineCells(l) ==
  LET pipes == PipesFrom(l, 1)
  IN [c \in 1..(Len(pipes) - 1) |->
        SubSeq(l, pipes[c] + 1, pipes[c + 1] - 1)]

\* An alignment row: pipes, colons, dashes and spaces, with a dash.
IsAlignRow(l) ==
  /\ \A i \in 1..Len(l) : l[i] \in {"|", ":", "-", " "}
  /\ \E i \in 1..Len(l) : l[i] = "-"

\* The align a marker of an alignment row stands for: a colon at its left,
\* at both ends, at its right, or none.
MarkerAlign(m) ==
  LET l == m # <<>> /\ m[1] = ":"
      r == m # <<>> /\ m[Len(m)] = ":"
  IN CASE l /\ ~r -> "left"
       [] l /\ r -> "center"
       [] ~l /\ r -> "right"
       [] OTHER -> ""

\* What a line of a rendered table is: an alignment row of given aligns, or
\* a row of a number of cells.
LineKind(l) ==
  LET cells == LineCells(l)
  IN IF IsAlignRow(l)
     THEN <<"align", [c \in 1..Len(cells) |-> MarkerAlign(cells[c])]>>
     ELSE <<"cells", Len(cells)>>

RenderedKinds ==
  LET lines == NonEmptyLines(Chars(rendered))
  IN [i \in 1..Len(lines) |-> LineKind(lines[i])]

\* The lines a table is to give: its header row, one alignment row of the
\* header cells' aligns in order, its data rows.
TableKinds(table) ==
  LET header == table.nodes[1].nodes
  IN <<<<"cells", Len(header)>>,
       <<"align", [c \in 1..Len(header) |-> header[c].data.align]>>>>
       \o [r \in 1..(Len(table.nodes) - 1) |->
             <<"cells", Len(table.nodes[r + 1].nodes)>>]

RECURSIVE DocumentKinds(_, _)
DocumentKinds(doc, i) ==
  IF i > Len(doc.nodes) THEN <<>>
  ELSE TableKinds(doc.nodes[i]) \o DocumentKinds(doc, i + 1)

\* The type of the header cells of the document's first table.
HeadTypeOf(doc) == doc.nodes[1].nodes[1].nodes[1].type

\* C11: each table of a document of well-formed tables, serialized in a
\* first or in a later call, is rendered as its header row, then exactly one
\* alignment row of one marker per header cell, in order and matching the
\* cell's align, then its data rows; and the call leaves the accumulator
\* empty for the first cell of the next table.
C11_OneAlignmentRowPerTable ==
  /\ (pc = "rendered" /\ HeadTypeOf(document) = "table-head")
       => /\ RenderedKinds = DocumentKinds(document, 1)
          /\ tableHeader = <<>>
  /\ (pc = "rendered001" /\ HeadTypeOf(document) = "table-cell")
       => /\ RenderedKinds = DocumentKinds(document, 1)
          /\ tableHeader001 = <<>>
          /\ firstRow

\* Two tables were serialized in one call of part_001, the first of two
\* columns of different aligns and a data row.
C11_Witness ==
  /\ pc = "rendered001"
  /\ HeadTypeOf(document) = "table-cell"
  /\ Len(document.nodes) = 2
  /\ Len(document.nodes[1].nodes) = 2
  /\ Len(document.nodes[1].nodes[1].nodes) = 2
  /\ document.nodes[1].nodes[1].nodes[1].data.align = "right"
  /\ document.nodes[1].nodes[1].nodes[2].data.align = "center"
  /\ Len(NonEmptyLines(Chars(rendered))) = 5

(***************************************************************************)
(* Calls after a call on any tree: the first document may have a table-row *)
(* or a header cell outside a table; well-formed tables follow.            *)
(***************************************************************************)
\* Documents of a table-row, or of a header cell, that no table encloses.
StrayDocs ==
  UNION {{Document(<<TableRow(head, aligns)>>) :
            aligns \in UNION {[1..n -> Aligns] : n \in 1..MaxCols}}
           \cup {Document(<<TableCell(head, 1, al)>>) : al \in Aligns} :
         head \in HeadTypes}

InitCalls ==
  /\ pc = "parsed"
  /\ text = <<>>
  /\ result = <<>>
  /\ document \in TableDocs \cup StrayDocs
  /\ rendered = <<>>
  /\ reparsed = Document(<<>>)
  /\ options = <<>>
  /\ tableHeader = <<>>
  /\ tableHeader001 = <<>>
  /\ firstRow = TRUE

NextCalls == Serialize \/ Serialize001 \/ Give(SmallTableDocs)

SpecCalls == InitCalls /\ [][NextCalls]_vars

\* C12: whatever trees were serialized before, serialize of a well-formed
\* document returns the string it returns when the module is freshly
\* loaded: no state of the renderer survives a call.
C12_RenderIsPure ==
  /\ (pc = "rendered" /\ document \in TableDocs
        /\ HeadTypeOf(document) = "table-head")
       => rendered = serialize(document)
  /\ (pc = "rendered001" /\ document \in TableDocs
        /\ HeadTypeOf(document) = "table-cell")
       => rendered = serialize001(document)

(***************************************************************************)
(* Lists: a list at the root of the document, whose last item may hold a   *)
(* nested list, and so on.  An item is a paragraph of the text "a" and,    *)
(* after it, the nested list.                                              *)
(***************************************************************************)
\* The number of list-items that enclose a list-item.
MaxDepth == 2

\* The number of items of a list.
MaxItems == 2

ListTypes == {"ordered-list", "todo-list", "bulleted-list"}

\* The list of level level: types gives the list type of every level, size
\* the number of items of every list, checked the items' data.checked.
RECURSIVE ListOf(_, _, _, _)
ListOf(types, size, checked, level) ==
  Block(types[level],
        [i \in 1..size |->
           BlockWith("list-item", 10 * level + i,
                     <<Block("paragraph",
                             <<TextNode(10 * level + i, <<"a">>, <<>>)>>)>>
                       \o (IF i = size /\ level < Len(types)
                           THEN <<ListOf(types, size, checked, level + 1)>>
                           ELSE <<>>),
                     [NoData EXCEPT !.checked = checked])])

ListDocs ==
  {Document(<<ListOf(types, size, checked, 1)>>) :
     types \in UNION {[1..n -> ListTypes] : n \in 1..(MaxDepth + 1)},
     size \in 1..MaxItems,
     checked \in BOOLEAN}

InitLists ==
  /\ pc = "parsed"
  /\ text = <<>>
  /\ result = <<>>
  /\ document \in ListDocs
  /\ rendered = <<>>
  /\ reparsed = Document(<<>>)
  /\ options = <<>>
  /\ tableHeader = <<>>
  /\ tableHeader001 = <<>>
  /\ firstRow = TRUE

NextLists == Serialize \/ Serialize001

SpecLists == InitLists /\ [][NextLists]_vars

(***************************************************************************)
(* Reading rendered lists.                                                 *)
(***************************************************************************)
\* The list-items of a list and of the lists nested in it, in document
\* order, each with the type of its parent list and its nesting depth.
RECURSIVE ItemsOf(_, _, _)
ItemsOf(list, depth, i) ==
  IF i > Len(list.nodes) THEN <<>>
  ELSE LET item == list.nodes[i]
       IN <<[key |-> item.key, parent |-> list.type,
             checked |-> item.data.checked, depth |-> depth]>>
            \o (IF Len(item.nodes) = 2
                THEN ItemsOf(item.nodes[2], depth + 1, 1) ELSE <<>>)
            \o ItemsOf(list, depth, i + 1)

DocumentItems == ItemsOf(document.nodes[1], 0, 1)

\* The lines of the rendered string, with the characters' origins.
RECURSIVE TaggedLines(_)
TaggedLines(t) ==
  IF \E i \in 1..Len(t) : t[i].c = "\n"
  THEN LET i == CHOOSE i \in 1..Len(t) :
                  t[i].c = "\n" /\ \A j \in 1..(i - 1) : t[j].c # "\n"
       IN <<SubSeq(t, 1, i - 1)>> \o TaggedLines(SubSeq(t, i + 1, Len(t)))
  ELSE <<t>>

\* The rendered lines but the empty line after the last line break.
RenderedLines ==
  LET lines == TaggedLines(rendered)
  IN IF lines[Len(lines)] = <<>> THEN SubSeq(lines, 1, Len(lines) - 1)
     ELSE lines

\* The number of spaces a line starts with.
Indent(line) ==
  Max({n \in 0..Len(line) : \A i \in 1..n : line[i].c = " "})

\* The line without the spaces it starts with, up to the item's text.
PrefixOf(line) ==
  LET rest == SubSeq(line, Indent(line) + 1, Len(line))
      n == Max({m \in 0..Len(rest) : \A i \in 1..m : rest[i].k = 0})
  IN Chars(SubSeq(rest, 1, n))

\* The key of the text node whose text a line holds (0: none).
KeyOf(line) ==
  IF \E i \in 1..Len(line) : line[i].k # 0
  THEN line[CHOOSE i \in 1..Len(line) : line[i].k # 0].k
  ELSE 0

\* The prefix of an item by the type of its parent list and its data.
ItemPrefix(item) ==
  CASE item.parent = "ordered-list" -> <<"1", ".", " ">>
    [] item.parent = "todo-list" ->
         IF item.checked THEN <<"[", "x", "]", " ">> ELSE <<"[", " ", "]", " ">>
    [] OTHER -> <<"*", " ">>

\* Every item has a line of its own, in document order.
OneLinePerItem ==
  /\ Len(RenderedLines) = Len(DocumentItems)
  /\ \A i \in 1..Len(DocumentItems) :
       KeyOf(RenderedLines[i]) = DocumentItems[i].key

\* C13: the prefix of a list-item is decided by the type of its parent list
\* and by its data only: "1. " in an ordered-list whatever the item's
\* position, "[x] " or "[ ] " in a todo-list, "* " in a bulleted-list.
C13_ItemPrefixByParentType ==
  pc \in {"rendered", "rendered001"}
    => /\ OneLinePerItem
       /\ \A i \in 1..Len(DocumentItems) :
            PrefixOf(RenderedLines[i]) = ItemPrefix(DocumentItems[i])

MaxLinkText == 2

\* The values of a link's data.href; <<>> is the empty href.
Hrefs == {<<>>, <<"b">>, <<"b", "b">>}

\* The texts of a link: letters and spaces.
LinkTexts == UNION {[1..n -> {"a", " "}] : n \in 0..MaxLinkText}

\* The text before, or after, the link.
SideTexts == {<<>>, <<"c">>}

LinkParagraph(before, href, label, after) ==
  Block("paragraph",
        <<TextNode(1, before, <<>>),
          Link(href, <<TextNode(2, label, <<>>)>>),
          TextNode(3, after, <<>>)>>)

InitLinks ==
  /\ pc = "parsed"
  /\ text = <<>>
  /\ result = <<>>
  /\ \E before \in SideTexts, href \in Hrefs, label \in LinkTexts,
        after \in SideTexts :
       document = Document(<<LinkParagraph(before, href, label, after)>>)
  /\ rendered = <<>>
  /\ reparsed = Document(<<>>)
  /\ options = <<>>
  /\ tableHeader = <<>>
  /\ tableHeader001 = <<>>
  /\ firstRow = TRUE

NextLinks == Serialize \/ Serialize001

SpecLinks == InitLinks /\ [][NextLinks]_vars

\* The link of the document, and the texts around it.
TheLink == document.nodes[1].nodes[2]
TextBefore == document.nodes[1].nodes[1].text
TextAfter == document.nodes[1].nodes[3].text

\* string.trim() of a string of characters.
TrimChars(str) == Chars(Trim(Lit(str)))

\* What the link is to contribute: its trimmed text alone when the href is
\* empty, [text](href) otherwise.
LinkExpected ==
  LET label == TrimChars(TheLink.nodes[1].text)
      href == TheLink.data.href
  IN IF href = <<>> THEN label
     ELSE <<"[">> \o label \o <<"]", "(">> \o href \o <<")">>

\* C15: a link whose href is empty is rendered as its trimmed text, with no
\* bracket or parenthesis around it; a link with an href (and a text) is
\* rendered as [text](href).
C15_EmptyHrefGivesText ==
  (/\ pc \in {"rendered", "rendered001"}
   /\ (TheLink.data.href = <<>> \/ TrimChars(TheLink.nodes[1].text) # <<>>))
    => TrimChars(Chars(rendered))
         = TrimChars(TextBefore \o LinkExpected \o TextAfter)

(***************************************************************************)
(* Paragraphs: two paragraphs with a text, and empty paragraphs between    *)
(* them.  An empty paragraph holds one text node with the empty text.      *)
(***************************************************************************)
\* The number of empty paragraphs between the two paragraphs.
MaxEmpty == 3

\* The length of the text of a paragraph.
MaxParagraphText == 2

ParagraphTexts == UNION {[1..n -> {"a", "b"}] : n \in 1..MaxParagraphText}

Paragraph(key, str) == Block("paragraph", <<TextNode(key, str, <<>>)>>)

\* first, k empty paragraphs, last.
Paragraphs(first, k, last) ==
  Document(<<Paragraph(1, first)>>
             \o [i \in 1..k |-> Paragraph(1 + i, <<>>)]
             \o <<Paragraph(k + 2, last)>>)

InitParagraphs ==
  /\ pc = "parsed"
  /\ text = <<>>
  /\ result = <<>>
  /\ \E first \in ParagraphTexts, k \in 0..MaxEmpty, last \in ParagraphTexts :
       document = Paragraphs(first, k, last)
  /\ rendered = <<>>
  /\ reparsed = Document(<<>>)
  /\ options = <<>>
  /\ tableHeader = <<>>
  /\ tableHeader001 = <<>>
  /\ firstRow = TRUE

NextParagraphs == Serialize \/ Serialize001

SpecParagraphs == InitParagraphs /\ [][NextParagraphs]_vars

\* The number of empty paragraphs of the document.
EmptyParagraphs == Len(document.nodes) - 2

\* The document with one empty paragraph less; the last paragraph keeps
\* its text.
OneEmptyLess ==
  Paragraphs(document.nodes[1].nodes[1].text, EmptyParagraphs - 1,
             document.nodes[Len(document.nodes)].nodes[1].text)

\* The number of line breaks of a rendered string between the text of the
\* first paragraph and the text of the last one, whose key is last.
BreaksBetween(t, last) ==
  Cardinality({i \in 1..Len(t) :
                 /\ t[i].c = "\n"
                 /\ \E j \in 1..(i - 1) : t[j].k = 1
                 /\ \E j \in (i + 1)..Len(t) : t[j].k = last})

\* C16: the more empty paragraphs between two paragraphs with text, the more
\* line breaks between their texts: k empty paragraphs give strictly more
\* line breaks than k - 1 do, and no empty paragraph gives at least one.
C16_EmptyParagraphsKept ==
  /\ (pc = "rendered" /\ EmptyParagraphs >= 1)
       => BreaksBetween(rendered, EmptyParagraphs + 2)
            > BreaksBetween(serialize(OneEmptyLess), EmptyParagraphs + 1)
  /\ (pc = "rendered001" /\ EmptyParagraphs >= 1)
       => BreaksBetween(rendered, EmptyParagraphs + 2)
            > BreaksBetween(serialize001(OneEmptyLess), EmptyParagraphs + 1)
  /\ (pc \in {"rendered", "rendered001"} /\ EmptyParagraphs = 0)
       => BreaksBetween(rendered, 2) >= 1

\* Two empty paragraphs between two paragraphs were serialized by
\* renderer.js, and both texts are in the string.
C16_Witness ==
  /\ pc = "rendered"
  /\ EmptyParagraphs = 2
  /\ BreaksBetween(rendered, 4) > 2
  /\ \E i \in 1..Len(rendered) : rendered[i].k = 1
  /\ \E i \in 1..Len(rendered) : rendered[i].k = 4

(***************************************************************************)
(* Rules of the caller: a serializer constructed with options.rules, each  *)
(* rule written for the objects of one kind and returning undefined, "",   *)
(* or a string of its own for them.                                        *)
(***************************************************************************)
\* The number of rules of options.rules.
MaxRules == 2

\* What a rule of the caller returns for the objects it is written for.
RuleReturns == {Undefined, <<>>, Lit(<<"R">>), Lit(<<"S">>)}

\* The rules of the caller: for strings, for paragraphs, for bold marks, for
\* the inlines of a type no built-in rule knows.
CallerRules ==
  {[object |-> target[1], type |-> target[2], ret |-> ret] :
     target \in {<<"string", "">>, <<"block", "paragraph">>,
                 <<"mark", "bold">>, <<"inline", "mention">>},
     ret \in RuleReturns}

\* A paragraph of the text "a", plain or bold; and a paragraph of a mention,
\* an inline with no built-in rule, followed by the text "b".
RuleDocs ==
  {Document(<<Block("paragraph", <<TextNode(1, <<"a">>, <<>>)>>)>>),
   Document(<<Block("paragraph", <<TextNode(1, <<"a">>, <<"bold">>)>>)>>),
   Document(<<Block("paragraph",
                    <<Inline("mention", <<TextNode(1, <<"a">>, <<>>)>>),
                      TextNode(2, <<"b">>, <<>>)>>)>>)}

InitRules ==
  /\ pc = "parsed"
  /\ text = <<>>
  /\ result = <<>>
  /\ document \in RuleDocs
  /\ rendered = <<>>
  /\ reparsed = Document(<<>>)
  /\ options \in UNION {[1..n -> CallerRules] : n \in 0..MaxRules}
  /\ tableHeader = <<>>
  /\ tableHeader001 = <<>>
  /\ firstRow = TRUE

NextRules == Serialize

SpecRules == InitRules /\ [][NextRules]_vars

\* The i-th rule of the caller is the first of the list to return a truthy
\* value for the objects of this kind.
RuleWins(i, object, type) ==
  /\ options[i].object = object /\ options[i].type = type
  /\ options[i].ret \notin {Undefined, <<>>}
  /\ \A j \in 1..(i - 1) :
       ~(/\ options[j].object = object /\ options[j].type = type
         /\ options[j].ret \notin {Undefined, <<>>})

\* The string an object of this kind serializes to: what the caller's first
\* rule with a truthy value returns, or else what the built-in rules return.
FirstInListOrder(object, type, builtIn) ==
  IF \E i \in 1..Len(options) : RuleWins(i, object, type)
  THEN Chars(options[CHOOSE i \in 1..Len(options) :
                       RuleWins(i, object, type)].ret)
  ELSE builtIn

\* The string the document is to serialize to.  A mention has no built-in
\* rule: without a rule of the caller it adds "" to the paragraph's text.
RulesExpected ==
  LET str(s) == FirstInListOrder("string", "", s)
      first == document.nodes[1].nodes[1]
      children ==
        IF first.object = "text"
        THEN IF first.marks = <<>> THEN str(<<"a">>)
             ELSE FirstInListOrder("mark", "bold",
                                   <<"*", "*">> \o str(<<"a">>) \o <<"*", "*">>)
        ELSE FirstInListOrder("inline", "mention", <<>>) \o str(<<"b">>)
  IN FirstInListOrder("block", "paragraph", children \o <<"\n">>)

\* C17: the rules are tried in the order of the list, the rules of
\* options.rules before the built-in ones; the first truthy value returned
\* is the result; undefined and "" are passed over; a node no rule returns
\* a truthy value for adds "" to its parent's children.
C17_FirstTruthyRuleWins ==
  pc = "rendered" => Chars(rendered) = TrimChars(RulesExpected)

\* The caller's first paragraph rule returned "", its second "R", and the
\* paragraph was serialized to "R".
C17_Witness ==
  /\ pc = "rendered"
  /\ Len(options) = 2
  /\ options[1] = [object |-> "block", type |-> "paragraph", ret |-> <<>>]
  /\ options[2] = [object |-> "block", type |-> "paragraph",
                   ret |-> Lit(<<"R">>)]
  /\ Chars(rendered) = <<"R">>

(***************************************************************************)
(* Runs of leaves: a paragraph of up to MaxLeaves sibling text leaves,     *)
(* bold, italic, both or plain, with the text "a" or with the empty text.  *)
(***************************************************************************)
\* The marks of a leaf of a run: bold and italic, in either order.
RunMarkSeqs ==
  {<<>>, <<"bold">>, <<"italic">>, <<"bold", "italic">>, <<"italic", "bold">>}

\* The texts of a leaf of a run.
RunTexts == {<<>>, <<"a">>}

InitRuns ==
  /\ pc = "parsed"
  /\ text = <<>>
  /\ result = <<>>
  /\ \E n \in 1..MaxLeaves :
       \E marks \in [1..n -> RunMarkSeqs], texts \in [1..n -> RunTexts] :
         document =
           Document(<<Block("paragraph",
                            [i \in 1..n |-> TextNode(i, texts[i], marks[i])])>>)
  /\ rendered = <<>>
  /\ reparsed = Document(<<>>)
  /\ options = <<>>
  /\ tableHeader = <<>>
  /\ tableHeader001 = <<>>
  /\ firstRow = TRUE

NextRuns == Serialize

SpecRuns == InitRuns /\ [][NextRuns]_vars

\* The number of characters c the renderer put into the rendered string.
InsertedCount(c) ==
  Cardinality({p \in 1..Len(rendered) :
                 rendered[p].k = 0 /\ rendered[p].c = c})

\* C18: the run of a paragraph's leaves, empty leaves included, is rendered
\* with as many closing delimiters as opening ones: the "**" in it come in
\* pairs, and so do the "_".
C18_DelimitersBalanced ==
  pc = "rendered"
    => /\ InsertedCount("*") % 4 = 0
       /\ InsertedCount("_") % 2 = 0

(***************************************************************************)
(* The first leaf of a paragraph.                                          *)
(***************************************************************************)
\* The delimiters of a sequence of marks as the reduce nests them when it
\* takes the marks in this order: the first mark innermost.
RECURSIVE OpeningDelimiters(_)
OpeningDelimiters(marks) ==
  IF marks = <<>> THEN <<>>
  ELSE OpeningDelimiters(Tail(marks)) \o Delimiter(Head(marks))

\* What is rendered before the text of the first leaf.
BeforeFirstText == Chars(SubSeq(rendered, 1, RPos(1, 1) - 1))

\* C19: the first child of a node is serialized without a previous sibling,
\* so the marks of a first leaf are taken in the order the leaf gives them,
\* whatever marks the last child of the node carries: its opening delimiters
\* nest in that order.
C19_FirstLeafMarksNotReordered ==
  pc = "rendered" /\ document.nodes[1].type = "paragraph"
    => BeforeFirstText = OpeningDelimiters(DocLeaves[1].marks)

=============================================================================
